---- MODULE Spec2Model ----
(***************************************************************************)
(* TSP: busqueda exhaustiva vs. vecino mas cercano.                        *)
(*                                                                         *)
(* Model of src/src/exhaustive_search.py, src/src/nearest_neighbor.py,     *)
(* src/src/distance_calculator.py, src/src/comparador.py and the calls of  *)
(* src/main.py.                                                            *)
(*                                                                         *)
(* Conventions                                                             *)
(*  - A Python list is a TLA+ sequence; Python position i is position i+1. *)
(*    City indices keep their Python values (0..n-1).                      *)
(*  - Distances are non-negative integers; a float holds Mantisa           *)
(*    significant bits and an addition rounds its exact result to the      *)
(*    nearest float. float('inf') is the integer Inf; a sum that would     *)
(*    reach it overflows to it.                                            *)
(*  - None is the empty sequence Ninguno (no cycle of the program is ever  *)
(*    empty: every cycle holds at least its first city).                   *)
(*  - A raised exception is recorded in the field/variable err and ends    *)
(*    the call.                                                            *)
(***************************************************************************)
EXTENDS Integers, Sequences, FiniteSets, TLC

VARIABLES
    fn,            \* the function being called
    pc,            \* position inside the call
    ciudades,      \* argument: list of cities (coords, or a malformed entry)
    matriz_dist,   \* argument: distance matrix (list of rows)
    verbose,       \* argument: verbose flag
    ciudad_inicio, \* argument of vecino_mas_cercano
    metodo,        \* argument of construir_matriz_distancias
    ex,            \* locals of busqueda_exhaustiva
    nn,            \* locals of vecino_mas_cercano
    mi,            \* locals of vecino_mas_cercano_multi_inicio
    dm,            \* locals of construir_matriz_distancias
    resultado,     \* the value returned (Ninguno until the call returns)
    err,           \* the exception raised by the call ("none" if none)
    mn             \* locals of the caller: the results it holds

vars == <<fn, pc, ciudades, matriz_dist, verbose, ciudad_inicio, metodo,
          ex, nn, mi, dm, resultado, err, mn>>

----------------------------------------------------------------------------
(* Bounds of the model *)

\* largest number of cities given to the solvers
MaxN == 4

\* largest single distance in a solver's matrix
MaxDist == 2

\* number of freely chosen matrix cells (the others repeat them, row-major)
MaxCeldas == 5

\* largest number of points given to construir_matriz_distancias
MaxPuntos == 3

\* significant bits of a float (53 in CPython; kept small so that the
\* rounding of a sum happens on the lengths explored here)
Mantisa == 3

----------------------------------------------------------------------------
(* Python values *)

\* float('inf')
Inf == 1000000

\* None
Ninguno == <<>>

\* Python's list indexing: position of index i in a list of length len
\* (negative indices count from the end); -1 if IndexError
PyIndex(len, i) ==
    IF i >= 0 /\ i < len THEN i + 1
    ELSE IF i < 0 /\ i >= -len THEN i + len + 1
    ELSE -1

\* number of binary digits of x >= 0
RECURSIVE Bits(_)
Bits(x) == IF x = 0 THEN 0 ELSE 1 + Bits(x \div 2)

Abs(x) == IF x < 0 THEN -x ELSE x

\* spacing of the floats around x: 1 (the smallest unit) while x fits in the
\* mantissa, one more power of two for every further bit
Ulp(x) ==
    IF Bits(Abs(x)) <= Mantisa THEN 1 ELSE 2 ^ (Bits(Abs(x)) - Mantisa)

\* the float nearest to the exact value x, ties to the even mantissa
Redondear(x) ==
    LET a == Abs(x)
        u == Ulp(a)
        q == a \div u
        r == a % u
        v == IF 2 * r > u \/ (2 * r = u /\ q % 2 = 1)
             THEN (q + 1) * u ELSE q * u
    IN IF x < 0 THEN -v ELSE v

\* float addition: the exact result, rounded; a sum as large as float('inf')
\* overflows to it, and float('inf') plus a number is float('inf')
FSuma(x, y) == IF Redondear(x + y) >= Inf THEN Inf ELSE Redondear(x + y)

\* float subtraction: the exact result, rounded

FResta(x, y) == Redondear(x - y)

\* range(a, b) as a sequence
Range(a, b) == [k \in 1..(IF b > a THEN b - a ELSE 0) |-> a + k - 1]

\* matriz_dist[i][j]: [err, val]
MatGet(M, i, j) ==
    LET r == PyIndex(Len(M), i) IN
    IF r = -1 THEN [err |-> "IndexError", val |-> 0]
    ELSE LET c == PyIndex(Len(M[r]), j) IN
         IF c = -1 THEN [err |-> "IndexError", val |-> 0]
         ELSE [err |-> "none", val |-> M[r][c]]

----------------------------------------------------------------------------
(* Inputs *)

\* a placeholder city for the solvers, which read only len(ciudades)
\* (and the names, when verbose)
CiudadCualquiera == [coords |-> <<0, 0>>]

Ciudades(n) == [k \in 1..n |-> CiudadCualquiera]

\* the m x m matrix whose cells, row-major, repeat the list celdas
MatrizDe(m, celdas) ==
    [i \in 1..m |-> [j \in 1..m |->
        celdas[(((i - 1) * m + (j - 1)) % Len(celdas)) + 1]]]

Celdas == [1..MaxCeldas -> 0..MaxDist]

Matrices(m) == {MatrizDe(m, c) : c \in Celdas}

----------------------------------------------------------------------------
(* exhaustive_search.py *)

\* a length that leaves out the edge back to the first city
LongitudSinCierre(ciclo, M) ==
    LET n == Len(ciclo)
        F[i \in 0..n] ==
            IF i = 0 THEN 0
            ELSE IF i = n THEN F[i - 1]
            ELSE FSuma(F[i - 1], M[ciclo[i] + 1][ciclo[i + 1] + 1])
    IN [err |-> "none", val |-> F[n]]

\* calcular_longitud_ciclo, loop of lines 23-26 from position i (Python) on
RECURSIVE SumaCiclo(_, _, _, _)
SumaCiclo(ciclo, M, i, longitud) ==
    LET n == Len(ciclo) IN
    IF i >= n THEN [err |-> "none", val |-> longitud]
    ELSE LET ciudad_actual == ciclo[i + 1]
             ciudad_siguiente == ciclo[((i + 1) % n) + 1]
             d == MatGet(M, ciudad_actual, ciudad_siguiente)
         IN IF d.err # "none" THEN [err |-> d.err, val |-> 0]
            ELSE SumaCiclo(ciclo, M, i + 1, FSuma(longitud, d.val))

calcular_longitud_ciclo(ciclo, M) == SumaCiclo(ciclo, M, 0, 0)

\* (n-1)! as computed by lines 56-58
RECURSIVE Producto(_, _)
Producto(i, n) == IF i >= n THEN 1 ELSE i * Producto(i + 1, n)

\* a product that runs one factor too far: n!
TotalPermutacionesDeMas(n) == Producto(1, n + 1)

TotalPermutaciones(n) == Producto(1, n)

\* itertools.permutations(indices): the successor of permutation p in
\* lexicographic order; HayMas(p) says whether there is one
Pivote(p) ==
    LET S == {i \in 1..(Len(p) - 1) : p[i] < p[i + 1]} IN
    IF S = {} THEN 0 ELSE CHOOSE i \in S : \A k \in S : k <= i

HayMas(p) == Pivote(p) # 0

SiguientePermutacion(p) ==
    LET i == Pivote(p)
        j == CHOOSE j \in (i + 1)..Len(p) :
                 /\ p[j] > p[i]
                 /\ \A k \in (i + 1)..Len(p) : p[k] > p[i] => k <= j
        q == [p EXCEPT ![i] = p[j], ![j] = p[i]]
    IN [k \in 1..Len(p) |-> IF k <= i THEN q[k] ELSE q[Len(p) + i + 1 - k]]

\* the retention limit of line 88
LimiteHistorial == 1000

\* a comparison that keeps the longer cycle
EsMejorInvertida(longitud, mejor_longitud) == longitud > mejor_longitud

\* a comparison that keeps the first cycle evaluated
SoloElPrimero(longitud, mejor_longitud) == mejor_longitud = Inf

\* a comparison that lets a tie replace the best cycle
EsMejorOIgual(longitud, mejor_longitud) == longitud <= mejor_longitud

\* line 77: the comparison that replaces the best cycle
EsMejor(longitud, mejor_longitud) == longitud < mejor_longitud

\* a retention test that stops one evaluation early
SeGuardaEstricto(ciclos_evaluados, es_mejor) ==
    ciclos_evaluados < LimiteHistorial \/ es_mejor

\* line 88: whether the evaluated cycle is kept in historial
SeGuarda(ciclos_evaluados, es_mejor) ==
    ciclos_evaluados <= LimiteHistorial \/ es_mejor

\* lines 44-58: locals before the loop
ExInicial(n) ==
    [perm |-> Range(1, n),
     mejor_ciclo |-> Ninguno,
     mejor_longitud |-> Inf,
     ciclos_evaluados |-> 0,
     historial |-> <<>>,
     total_permutaciones |-> TotalPermutaciones(n),
     err |-> "none"]

\* lines 71-94: the body of the loop for the permutation e.perm
ExCuerpo(e, M) ==
    LET ciclo == <<0>> \o e.perm
        l == calcular_longitud_ciclo(ciclo, M)
    IN IF l.err # "none" THEN [e EXCEPT !.err = l.err]
       ELSE LET longitud == l.val
                evaluados == e.ciclos_evaluados + 1
                es_mejor == EsMejor(longitud, e.mejor_longitud)
            IN [e EXCEPT
                  !.ciclos_evaluados = evaluados,
                  !.mejor_longitud = IF es_mejor THEN longitud ELSE @,
                  !.mejor_ciclo = IF es_mejor THEN ciclo ELSE @,
                  !.historial =
                      IF SeGuarda(evaluados, es_mejor)
                      THEN Append(@, [ciclo |-> ciclo,
                                      longitud |-> longitud,
                                      es_mejor |-> es_mejor,
                                      iteracion |-> evaluados])
                      ELSE @]

\* line 102: the verbose report iterates over mejor_ciclo, which is still
\* None when no cycle was shorter than float('inf'), and reads ciudades[i]
\* for every i of it
ExInformeErr(e, n, v) ==
    IF v /\ e.mejor_ciclo = Ninguno THEN "TypeError"
    ELSE IF v /\ \E k \in 1..Len(e.mejor_ciclo) :
                    PyIndex(n, e.mejor_ciclo[k]) = -1
    THEN "IndexError" ELSE "none"

\* lines 108-114: the returned dict (tiempo_ejecucion is not modelled)
ExResultado(e) ==
    [ciclo_optimo |-> e.mejor_ciclo,
     longitud_optima |-> e.mejor_longitud,
     ciclos_evaluados |-> e.ciclos_evaluados,
     historial |-> e.historial]

----------------------------------------------------------------------------
(* nearest_neighbor.py *)

\* locals that keep the visitadas list of the call before, as a list shared
\* between calls would
NnInicialHeredado(n, inicio) ==
    LET k == PyIndex(n, inicio) IN
    [visitadas |-> IF Len(nn.visitadas) = n
                   THEN [c \in 1..n |-> nn.visitadas[c] \/ c = k]
                   ELSE [c \in 1..n |-> c = k],
     ciclo |-> <<inicio>>,
     longitud_total |-> 0,
     historial |-> <<>>,
     ciudad_actual |-> inicio,
     paso |-> 0,
     err |-> IF k = -1 THEN "IndexError" ELSE "none"]

\* lines 27-45: locals before the loop; visitadas[ciudad_inicio] = True
\* raises IndexError when ciudad_inicio is no index of a list of length n
NnInicial(n, inicio) ==
    LET k == PyIndex(n, inicio) IN
    [visitadas |-> [c \in 1..n |-> c = k],
     ciclo |-> <<inicio>>,
     longitud_total |-> 0,
     historial |-> <<>>,
     ciudad_actual |-> inicio,
     paso |-> 0,
     err |-> IF k = -1 THEN "IndexError" ELSE "none"]

\* a comparison that lets a later city at the same distance win
MasCercaOIgual(distancia, mejor_distancia) == distancia <= mejor_distancia

\* line 56: the comparison that replaces the nearest city
MasCerca(distancia, mejor_distancia) == distancia < mejor_distancia

\* lines 53-58: the scan of the cities from ciudad on;
\* hay is FALSE while mejor_ciudad is None
RECURSIVE Buscar(_, _, _, _, _, _)
Buscar(n, M, visitadas, ciudad_actual, ciudad, mejor) ==
    IF ciudad >= n THEN mejor
    ELSE IF visitadas[ciudad + 1]
    THEN Buscar(n, M, visitadas, ciudad_actual, ciudad + 1, mejor)
    ELSE LET d == MatGet(M, ciudad_actual, ciudad) IN
         IF d.err # "none" THEN [mejor EXCEPT !.err = d.err]
         ELSE Buscar(n, M, visitadas, ciudad_actual, ciudad + 1,
                     IF MasCerca(d.val, mejor.mejor_distancia)
                     THEN [mejor EXCEPT !.mejor_distancia = d.val,
                                        !.mejor_ciudad = ciudad,
                                        !.hay = TRUE]
                     ELSE mejor)

\* a scan that does not skip the visited cities
BuscarSinVisitadas(n, M, visitadas, ciudad_actual) ==
    Buscar(n, M, [c \in 1..n |-> FALSE], ciudad_actual, 0,
           [mejor_distancia |-> Inf, mejor_ciudad |-> 0, hay |-> FALSE,
            err |-> "none"])

\* lines 49-58
BuscarMasCercano(n, M, visitadas, ciudad_actual) ==
    Buscar(n, M, visitadas, ciudad_actual, 0,
           [mejor_distancia |-> Inf, mejor_ciudad |-> 0, hay |-> FALSE,
            err |-> "none"])

\* lines 49-79: one iteration of the construction loop;
\* visitadas[None] = True raises TypeError
NnPaso(s, n, M) ==
    LET b == BuscarMasCercano(n, M, s.visitadas, s.ciudad_actual) IN
    IF b.err # "none" THEN [s EXCEPT !.err = b.err]
    ELSE IF ~b.hay THEN [s EXCEPT !.err = "TypeError"]
    ELSE LET ciclo == Append(s.ciclo, b.mejor_ciudad)
             longitud_total == FSuma(s.longitud_total, b.mejor_distancia)
         IN [s EXCEPT
               !.ciclo = ciclo,
               !.visitadas = [@ EXCEPT ![b.mejor_ciudad + 1] = TRUE],
               !.longitud_total = longitud_total,
               !.historial =
                   Append(@, [ciclo_parcial |-> ciclo,
                              ciudad_origen |-> s.ciudad_actual,
                              ciudad_destino |-> b.mejor_ciudad,
                              distancia |-> b.mejor_distancia,
                              longitud_acumulada |-> longitud_total,
                              paso |-> s.paso + 1]),
               !.ciudad_actual = b.mejor_ciudad,
               !.paso = s.paso + 1]

\* a closing step that numbers its entry one too high
NnCerrarPasoDeMas(s, n, M, inicio) ==
    LET d == MatGet(M, s.ciudad_actual, inicio) IN
    IF d.err # "none" THEN [s EXCEPT !.err = d.err]
    ELSE LET longitud_total == FSuma(s.longitud_total, d.val) IN
         [s EXCEPT
            !.longitud_total = longitud_total,
            !.historial =
                Append(@, [ciclo_parcial |-> Append(s.ciclo, inicio),
                           ciudad_origen |-> s.ciudad_actual,
                           ciudad_destino |-> inicio,
                           distancia |-> d.val,
                           longitud_acumulada |-> longitud_total,
                           paso |-> n + 1])]

\* a closing step that records the closing edge without adding its length
NnCerrarSinSumar(s, n, M, inicio) ==
    LET d == MatGet(M, s.ciudad_actual, inicio) IN
    IF d.err # "none" THEN [s EXCEPT !.err = d.err]
    ELSE [s EXCEPT
            !.historial =
                Append(@, [ciclo_parcial |-> Append(s.ciclo, inicio),
                           ciudad_origen |-> s.ciudad_actual,
                           ciudad_destino |-> inicio,
                           distancia |-> d.val,
                           longitud_acumulada |-> s.longitud_total,
                           paso |-> n])]

\* lines 81-101: the closing edge back to ciudad_inicio
NnCerrar(s, n, M, inicio) ==
    LET d == MatGet(M, s.ciudad_actual, inicio) IN
    IF d.err # "none" THEN [s EXCEPT !.err = d.err]
    ELSE LET longitud_total == FSuma(s.longitud_total, d.val) IN
         [s EXCEPT
            !.longitud_total = longitud_total,
            !.historial =
                Append(@, [ciclo_parcial |-> Append(s.ciclo, inicio),
                           ciudad_origen |-> s.ciudad_actual,
                           ciudad_destino |-> inicio,
                           distancia |-> d.val,
                           longitud_acumulada |-> longitud_total,
                           paso |-> n])]

\* lines 109-114: the returned dict (tiempo_ejecucion is not modelled)
NnResultado(s) ==
    [ciclo |-> s.ciclo,
     longitud |-> s.longitud_total,
     historial |-> s.historial]

\* lines 48-79: the rest of the construction loop, from the locals s
RECURSIVE NnBucle(_, _, _)
NnBucle(s, n, M) ==
    IF s.err # "none" \/ s.paso >= n - 1 THEN s
    ELSE NnBucle(NnPaso(s, n, M), n, M)

\* vecino_mas_cercano as one call: [err, res]
VecinoMasCercano(n, M, inicio) ==
    LET s0 == NnInicial(n, inicio) IN
    IF s0.err # "none" THEN [err |-> s0.err, res |-> Ninguno]
    ELSE LET s1 == NnBucle(s0, n, M) IN
         IF s1.err # "none" THEN [err |-> s1.err, res |-> Ninguno]
         ELSE LET s2 == NnCerrar(s1, n, M, inicio) IN
              IF s2.err # "none" THEN [err |-> s2.err, res |-> Ninguno]
              ELSE [err |-> "none", res |-> NnResultado(s2)]

\* lines 129-131 of vecino_mas_cercano_multi_inicio; inicio is the next
\* start of range(n), solucion the result of the last run
MiInicial ==
    [inicio |-> 0,
     solucion |-> Ninguno,
     mejor_solucion |-> Ninguno,
     mejor_longitud |-> Inf,
     err |-> "none"]

\* a comparison that lets a later start of equal longitud win
MiMejoraOIguala(longitud, mejor_longitud) == longitud <= mejor_longitud

\* line 145: the comparison that replaces the best solution
MiMejora(longitud, mejor_longitud) == longitud < mejor_longitud

\* lines 139-147: one iteration of the loop over the starts
MiPaso(s, n, M) ==
    LET r == VecinoMasCercano(n, M, s.inicio) IN
    IF r.err # "none" THEN [s EXCEPT !.err = r.err]
    ELSE LET mejora == MiMejora(r.res.longitud, s.mejor_longitud) IN
         [s EXCEPT
            !.solucion = r.res,
            !.mejor_longitud = IF mejora THEN r.res.longitud ELSE @,
            !.mejor_solucion = IF mejora THEN r.res ELSE @,
            !.inicio = @ + 1]

\* the locals of vecino_mas_cercano while it is not called
NnVacio ==
    [visitadas |-> <<>>, ciclo |-> <<>>, longitud_total |-> 0,
     historial |-> <<>>, ciudad_actual |-> 0, paso |-> 0, err |-> "none"]

----------------------------------------------------------------------------
(* distance_calculator.py                                                  *)
(*                                                                         *)
(* Floats are fixed-point integers with Escala units per 1.0; every        *)
(* rounding truncates toward zero, so that, as in IEEE arithmetic, the     *)
(* rounding of -x is minus the rounding of x. Coordinates are whole        *)
(* degrees. math.sin, math.cos and math.atan2 are polynomial               *)
(* approximations on the range the model's coordinates reach.              *)

Escala == 10 ^ 3

\* a / b rounded toward zero
Div(a, b) == IF a >= 0 THEN a \div b ELSE -((-a) \div b)

\* x * y of two fixed-point numbers
Mul(x, y) == Div(x * y, Escala)

\* floor of the square root of x >= 0, by bisection on lo..hi
RECURSIVE RaizEntre(_, _, _)
RaizEntre(x, lo, hi) ==
    IF lo >= hi THEN lo
    ELSE LET mid == (lo + hi + 1) \div 2 IN
         IF mid * mid <= x THEN RaizEntre(x, mid, hi)
         ELSE RaizEntre(x, lo, mid - 1)

\* math.sqrt of a fixed-point number
Raiz(x) == RaizEntre(x * Escala, 0, 46340)

\* math.radians of whole degrees (pi = 3.1416)
Radianes(grados) == Div(grados * 31416, 1800000 \div Escala)

\* math.sin: x - x^3/6 + x^5/120 - x^7/5040
Sin(x) ==
    LET x2 == Mul(x, x)
        x3 == Mul(x2, x)
        x5 == Mul(x3, x2)
        x7 == Mul(x5, x2)
    IN x - Div(x3, 6) + Div(x5, 120) - Div(x7, 5040)

\* math.cos: 1 - x^2/2 + x^4/24 - x^6/720
Cos(x) ==
    LET x2 == Mul(x, x)
        x4 == Mul(x2, x2)
        x6 == Mul(x4, x2)
    IN Escala - Div(x2, 2) + Div(x4, 24) - Div(x6, 720)

\* atan(t) for 0 <= t <= 1: t*pi/4 + 0.273*t*(1 - t)
ArcTanUnidad(t) ==
    Div(t * 7854, 10000) + Div(Mul(t, Escala - t) * 273, 1000)

\* math.atan2(y, x) for y >= 0, x >= 0, not both 0
ArcTan2(y, x) ==
    IF y <= x THEN ArcTanUnidad(Div(y * Escala, x))
    ELSE Div(31416 * Escala, 20000) - ArcTanUnidad(Div(x * Escala, y))

\* a mistyped difference: lon1 - lat2 in place of lon1 - lon2
DistanciaEuclidianaErrada(coord1, coord2) ==
    LET lat1 == coord1[1]
        lon1 == coord1[2]
        lat2 == coord2[1]
    IN Redondear(Raiz(((lat1 - lat2) * (lat1 - lat2)
                       + (lon1 - lat2) * (lon1 - lat2)) * Escala))

\* distancia_euclidiana, lines 21-23 (whole degrees in, fixed-point out)
distancia_euclidiana(coord1, coord2) ==
    LET lat1 == coord1[1]
        lon1 == coord1[2]
        lat2 == coord2[1]
        lon2 == coord2[2]
    IN Redondear(Raiz(((lat1 - lat2) * (lat1 - lat2)
                       + (lon1 - lon2) * (lon1 - lon2)) * Escala))

\* R of line 37, in km
RadioTierra == 6371

\* distancia_haversine, lines 37-48 (whole degrees in, whole km out)
distancia_haversine(coord1, coord2) ==
    LET lat1 == Radianes(coord1[1])
        lon1 == Radianes(coord1[2])
        lat2 == Radianes(coord2[1])
        lon2 == Radianes(coord2[2])
        dlat == lat2 - lat1
        dlon == lon2 - lon1
        sdlat == Sin(Div(dlat, 2))
        sdlon == Sin(Div(dlon, 2))
        a == Mul(sdlat, sdlat)
             + Mul(Mul(Cos(lat1), Cos(lat2)), Mul(sdlon, sdlon))
        c == 2 * ArcTan2(Raiz(a), Raiz(Escala - a))
    IN Redondear(Div(RadioTierra * c, Escala))

\* a test that lets every method through
MetodoSinComprobar(m) == TRUE

\* line 67: metodo in metodos
MetodoConocido(m) == m \in {"euclid", "haversine"}

\* line 79: func_distancia(ciudades[i]['coords'], ciudades[j]['coords']);
\* a city without 'coords' raises KeyError, and so does a method that the
\* dict of lines 62-65 lacks
FuncDistancia(m, pts, i, j) ==
    IF m \notin {"euclid", "haversine"}
    THEN [err |-> "KeyError", val |-> 0]
    ELSE IF "coords" \notin DOMAIN pts[i + 1]
            \/ "coords" \notin DOMAIN pts[j + 1]
    THEN [err |-> "KeyError", val |-> 0]
    ELSE [err |-> "none",
          val |-> IF m = "euclid"
                  THEN distancia_euclidiana(pts[i + 1].coords,
                                            pts[j + 1].coords)
                  ELSE distancia_haversine(pts[i + 1].coords,
                                           pts[j + 1].coords)]

\* the caller before any call: no result held
MnVacio ==
    [resultado_exhaustivo |-> Ninguno,
     resultado_nn |-> Ninguno,
     anterior |-> Ninguno,
     llamadas |-> 0]

\* the locals before line 62: nothing read, no matrix
DmVacio == [matriz |-> <<>>, i |-> 0, n |-> 0, err |-> "none"]

\* lines 62-72: the method is looked up, then len(ciudades) is read and
\* the matrix of zeros made
DmInicial(m, pts) ==
    IF ~MetodoConocido(m) THEN [DmVacio EXCEPT !.err = "ValueError"]
    ELSE IF m \notin {"euclid", "haversine"}
    THEN [DmVacio EXCEPT !.err = "KeyError"]
    ELSE [matriz |-> [i \in 1..Len(pts) |-> [j \in 1..Len(pts) |-> 0]],
          i |-> 0, n |-> Len(pts), err |-> "none"]

\* lines 75-79: row i from column j on; stops at the first exception
RECURSIVE DmCeldas(_, _, _, _, _)
DmCeldas(m, pts, i, j, fila) ==
    IF j >= Len(pts) THEN [err |-> "none", fila |-> fila]
    ELSE IF i = j
    THEN DmCeldas(m, pts, i, j + 1, [fila EXCEPT ![j + 1] = 0])
    ELSE LET d == FuncDistancia(m, pts, i, j) IN
         IF d.err # "none" THEN [err |-> d.err, fila |-> fila]
         ELSE DmCeldas(m, pts, i, j + 1, [fila EXCEPT ![j + 1] = d.val])

\* lines 74-79: one iteration of the outer loop, row s.i
DmFilaSiguiente(s, m, pts) ==
    LET r == DmCeldas(m, pts, s.i, 0, s.matriz[s.i + 1]) IN
    [s EXCEPT !.matriz[s.i + 1] = r.fila,
              !.i = IF r.err = "none" THEN @ + 1 ELSE @,
              !.err = r.err]


----------------------------------------------------------------------------
(* The three functions as single calls: what a caller gets back *)

\* lines 69-94 of busqueda_exhaustiva: the loop from the permutation e.perm
\* to the last one, or to the first exception; e1 is the state after one
\* pass of the body, bound once per pass
RECURSIVE ExBucle(_, _)
ExBucle(e, M) ==
    CHOOSE r \in {IF e1.err # "none" \/ ~HayMas(e.perm) THEN e1
                  ELSE ExBucle([e1 EXCEPT
                                  !.perm = SiguientePermutacion(e.perm)], M) :
                     e1 \in {ExCuerpo(e, M)}} : TRUE

\* busqueda_exhaustiva as one call: [err, res]
BusquedaExhaustiva(n, M, v) ==
    LET e == ExBucle(ExInicial(n), M) IN
    IF e.err # "none" THEN [err |-> e.err, res |-> Ninguno]
    ELSE IF ExInformeErr(e, n, v) # "none"
    THEN [err |-> ExInformeErr(e, n, v), res |-> Ninguno]
    ELSE [err |-> "none", res |-> ExResultado(e)]

\* lines 74-79 of construir_matriz_distancias: the rows from s.i on; s1 is
\* the state after one row, bound once per row
RECURSIVE DmBucle(_, _, _)
DmBucle(s, m, pts) ==
    IF s.err # "none" \/ s.i >= s.n THEN s
    ELSE CHOOSE r \in {DmBucle(s1, m, pts) :
                          s1 \in {DmFilaSiguiente(s, m, pts)}} : TRUE

\* construir_matriz_distancias as one call: [err, res]
ConstruirMatriz(m, pts) ==
    LET s == DmBucle(DmInicial(m, pts), m, pts) IN
    IF s.err # "none" THEN [err |-> s.err, res |-> Ninguno]
    ELSE [err |-> "none", res |-> s.matriz]

----------------------------------------------------------------------------
(* comparador.py                                                           *)
(*                                                                         *)
(* A quotient is a fixed-point integer with Escala units per 1.0, as in    *)
(* distance_calculator.py; a time is a whole number of clock ticks.        *)

\* the gap with a guard the code does not have: 0 for an optimum of 0
GapGuardado(longitud_nn, longitud_optima) ==
    IF longitud_optima = 0 THEN [err |-> "none", val |-> 0]
    ELSE [err |-> "none",
          val |-> Div(FResta(longitud_nn, longitud_optima) * Escala,
                      longitud_optima) * 100]

\* the gap taken relative to the heuristic length
GapSobreNn(longitud_nn, longitud_optima) ==
    IF longitud_optima = 0 \/ longitud_nn = 0
    THEN [err |-> "ZeroDivisionError", val |-> 0]
    ELSE [err |-> "none",
          val |-> Div(FResta(longitud_nn, longitud_optima) * Escala,
                      longitud_nn) * 100]

\* calcular_gap, line 20: [err, val]; a float division by 0.0 raises
calcular_gap(longitud_nn, longitud_optima) ==
    IF longitud_optima = 0 THEN [err |-> "ZeroDivisionError", val |-> 0]
    ELSE [err |-> "none",
          val |-> Div(FResta(longitud_nn, longitud_optima) * Escala,
                      longitud_optima) * 100]

\* lines 83-88: the verbose report reads ciudades[i] for every i of both
\* cycles
CompInformeErr(c, n, v) ==
    IF v /\ (\/ \E k \in 1..Len(c.ciclo_optimo) :
                    PyIndex(n, c.ciclo_optimo[k]) = -1
             \/ \E k \in 1..Len(c.ciclo_nn) : PyIndex(n, c.ciclo_nn[k]) = -1)
    THEN "IndexError" ELSE "none"

\* comparar_metodos, lines 36-60 and the report: [err, res]
CompararMetodos(resultado_exhaustivo, resultado_nn, pts, v) ==
    LET long_optima == resultado_exhaustivo.longitud_optima
        long_nn == resultado_nn.longitud
        tiempo_exhaustivo == resultado_exhaustivo.tiempo_ejecucion
        tiempo_nn == resultado_nn.tiempo_ejecucion
        gap == calcular_gap(long_nn, long_optima)
        speedup == IF tiempo_nn > 0
                   THEN Div(tiempo_exhaustivo * Escala, tiempo_nn)
                   ELSE Inf
        comparacion ==
            [n_ciudades |-> Len(pts),
             longitud_optima |-> long_optima,
             longitud_nn |-> long_nn,
             diferencia_absoluta |-> FResta(long_nn, long_optima),
             gap_porcentaje |-> gap.val,
             tiempo_exhaustivo |-> tiempo_exhaustivo,
             tiempo_nn |-> tiempo_nn,
             speedup |-> speedup,
             ciclos_evaluados |-> resultado_exhaustivo.ciclos_evaluados,
             ciclo_optimo |-> resultado_exhaustivo.ciclo_optimo,
             ciclo_nn |-> resultado_nn.ciclo]
    IN IF gap.err # "none" THEN [err |-> gap.err, res |-> Ninguno]
       ELSE IF CompInformeErr(comparacion, Len(pts), v) # "none"
       THEN [err |-> CompInformeErr(comparacion, Len(pts), v),
             res |-> Ninguno]
       ELSE [err |-> "none", res |-> comparacion]

\* busqueda_exhaustiva is called
InitEx ==
    /\ fn = "busqueda_exhaustiva"
    /\ pc = "inicio"
    /\ \E n \in 0..MaxN : \E m \in {n - 1, n, n + 1} \cap (0..(MaxN + 1)) :
          /\ ciudades = Ciudades(n)
          /\ matriz_dist \in Matrices(m)
    /\ verbose \in BOOLEAN
    /\ ciudad_inicio = 0
    /\ metodo = "euclid"
    /\ ex = ExInicial(0)
    /\ nn = NnVacio
    /\ mi = MiInicial
    /\ dm = DmVacio
    /\ resultado = Ninguno
    /\ err = "none"
    /\ mn = MnVacio

\* lines 44-66
ExIniciar ==
    /\ fn = "busqueda_exhaustiva" /\ pc = "inicio"
    /\ ex' = ExInicial(Len(ciudades))
    /\ pc' = "permutaciones"
    /\ UNCHANGED <<fn, ciudades, matriz_dist, verbose, ciudad_inicio, metodo,
                   nn, mi, dm, resultado, err, mn>>

\* lines 69-94: one iteration of the loop over the permutations
ExIterar ==
    /\ fn = "busqueda_exhaustiva" /\ pc = "permutaciones"
    /\ LET e == ExCuerpo(ex, matriz_dist) IN
       IF e.err # "none"
       THEN /\ ex' = e
            /\ err' = e.err
            /\ pc' = "error"
       ELSE /\ err' = err
            /\ IF HayMas(ex.perm)
               THEN /\ ex' = [e EXCEPT !.perm = SiguientePermutacion(ex.perm)]
                    /\ pc' = "permutaciones"
               ELSE /\ ex' = e
                    /\ pc' = "fin"
    /\ UNCHANGED <<fn, ciudades, matriz_dist, verbose, ciudad_inicio, metodo,
                   nn, mi, dm, resultado, mn>>

\* lines 96-114: the report and the return
ExTerminar ==
    /\ fn = "busqueda_exhaustiva" /\ pc = "fin"
    /\ LET r == ExInformeErr(ex, Len(ciudades), verbose) IN
       IF r # "none"
       THEN /\ err' = r
            /\ pc' = "error"
            /\ resultado' = resultado
       ELSE /\ err' = err
            /\ pc' = "done"
            /\ resultado' = ExResultado(ex)
    /\ UNCHANGED <<fn, ciudades, matriz_dist, verbose, ciudad_inicio, metodo,
                   ex, nn, mi, dm, mn>>

NextEx == ExIniciar \/ ExIterar \/ ExTerminar

SpecEx == InitEx /\ [][NextEx]_vars

\* the n x n matrices and start indices given to vecino_mas_cercano
InitNN ==
    /\ fn = "vecino_mas_cercano"
    /\ pc = "inicio"
    /\ \E n \in 0..MaxN :
          /\ ciudades = Ciudades(n)
          /\ matriz_dist \in Matrices(n)
    /\ verbose \in BOOLEAN
    /\ ciudad_inicio \in (-(MaxN + 1))..(MaxN + 1)
    /\ metodo = "euclid"
    /\ ex = ExInicial(0)
    /\ nn = NnVacio
    /\ mi = MiInicial
    /\ dm = DmVacio
    /\ resultado = Ninguno
    /\ err = "none"
    /\ mn = MnVacio

\* lines 27-45
NnIniciar ==
    /\ fn = "vecino_mas_cercano" /\ pc = "inicio"
    /\ nn' = NnInicial(Len(ciudades), ciudad_inicio)
    /\ err' = nn'.err
    /\ pc' = IF nn'.err # "none" THEN "error" ELSE "construir"
    /\ UNCHANGED <<fn, ciudades, matriz_dist, verbose, ciudad_inicio, metodo,
                   ex, mi, dm, resultado, mn>>

\* lines 48-79: one iteration of the construction loop
NnAvanzar ==
    /\ fn = "vecino_mas_cercano" /\ pc = "construir"
    /\ nn.paso < Len(ciudades) - 1
    /\ nn' = NnPaso(nn, Len(ciudades), matriz_dist)
    /\ err' = nn'.err
    /\ pc' = IF nn'.err # "none" THEN "error" ELSE "construir"
    /\ UNCHANGED <<fn, ciudades, matriz_dist, verbose, ciudad_inicio, metodo,
                   ex, mi, dm, resultado, mn>>

\* lines 81-114: the closing edge and the return
NnTerminar ==
    /\ fn = "vecino_mas_cercano" /\ pc = "construir"
    /\ nn.paso >= Len(ciudades) - 1
    /\ nn' = NnCerrar(nn, Len(ciudades), matriz_dist, ciudad_inicio)
    /\ err' = nn'.err
    /\ IF nn'.err # "none"
       THEN pc' = "error" /\ resultado' = resultado
       ELSE pc' = "done" /\ resultado' = NnResultado(nn')
    /\ UNCHANGED <<fn, ciudades, matriz_dist, verbose, ciudad_inicio, metodo,
                   ex, mi, dm, mn>>

NextNN == NnIniciar \/ NnAvanzar \/ NnTerminar

SpecNN == InitNN /\ [][NextNN]_vars

\* the n x n matrices given to vecino_mas_cercano_multi_inicio
InitMulti ==
    /\ fn = "vecino_mas_cercano_multi_inicio"
    /\ pc = "inicio"
    /\ \E n \in 0..MaxN :
          /\ ciudades = Ciudades(n)
          /\ matriz_dist \in Matrices(n)
    /\ verbose \in BOOLEAN
    /\ ciudad_inicio = 0
    /\ metodo = "euclid"
    /\ ex = ExInicial(0)
    /\ nn = NnVacio
    /\ mi = MiInicial
    /\ dm = DmVacio
    /\ resultado = Ninguno
    /\ err = "none"
    /\ mn = MnVacio

\* lines 129-137
MiIniciar ==
    /\ fn = "vecino_mas_cercano_multi_inicio" /\ pc = "inicio"
    /\ mi' = MiInicial
    /\ pc' = "inicios"
    /\ UNCHANGED <<fn, ciudades, matriz_dist, verbose, ciudad_inicio, metodo,
                   ex, nn, dm, resultado, err, mn>>

\* lines 139-147: one iteration of the loop over the starts
MiIterar ==
    /\ fn = "vecino_mas_cercano_multi_inicio" /\ pc = "inicios"
    /\ mi.inicio < Len(ciudades)
    /\ mi' = MiPaso(mi, Len(ciudades), matriz_dist)
    /\ err' = mi'.err
    /\ pc' = IF mi'.err # "none" THEN "error" ELSE "inicios"
    /\ UNCHANGED <<fn, ciudades, matriz_dist, verbose, ciudad_inicio, metodo,
                   ex, nn, dm, resultado, mn>>

\* lines 149-154: the return
MiTerminar ==
    /\ fn = "vecino_mas_cercano_multi_inicio" /\ pc = "inicios"
    /\ mi.inicio >= Len(ciudades)
    /\ resultado' = mi.mejor_solucion
    /\ pc' = "done"
    /\ UNCHANGED <<fn, ciudades, matriz_dist, verbose, ciudad_inicio, metodo,
                   ex, nn, mi, dm, err, mn>>

NextMulti == MiIniciar \/ MiIterar \/ MiTerminar

SpecMulti == InitMulti /\ [][NextMulti]_vars

\* the coordinates of the model's points, in whole degrees
Lats == {-10, 0, 20}

Lons == {0, 15}

\* a city with coordinates, or a malformed one without 'coords'
Puntos ==
    {[coords |-> <<la, lo>>] : la \in Lats, lo \in Lons}
        \cup {[nombre |-> "sin coords"]}

ListasDePuntos == UNION {[1..n -> Puntos] : n \in 0..MaxPuntos}

Metodos == {"euclid", "haversine", "manhattan"}

\* the lists of points and the methods given to construir_matriz_distancias
InitDist ==
    /\ fn = "construir_matriz_distancias"
    /\ pc = "inicio"
    /\ ciudades \in ListasDePuntos
    /\ matriz_dist = <<>>
    /\ verbose = FALSE
    /\ ciudad_inicio = 0
    /\ metodo \in Metodos
    /\ ex = ExInicial(0)
    /\ nn = NnVacio
    /\ mi = MiInicial
    /\ dm = DmVacio
    /\ resultado = Ninguno
    /\ err = "none"
    /\ mn = MnVacio

\* lines 62-72
DmIniciar ==
    /\ fn = "construir_matriz_distancias" /\ pc = "inicio"
    /\ dm' = DmInicial(metodo, ciudades)
    /\ err' = dm'.err
    /\ pc' = IF dm'.err # "none" THEN "error" ELSE "filas"
    /\ UNCHANGED <<fn, ciudades, matriz_dist, verbose, ciudad_inicio, metodo,
                   ex, nn, mi, resultado, mn>>

\* lines 74-79: one row
DmFila ==
    /\ fn = "construir_matriz_distancias" /\ pc = "filas"
    /\ dm.i < dm.n
    /\ dm' = DmFilaSiguiente(dm, metodo, ciudades)
    /\ err' = dm'.err
    /\ pc' = IF dm'.err # "none" THEN "error" ELSE "filas"
    /\ UNCHANGED <<fn, ciudades, matriz_dist, verbose, ciudad_inicio, metodo,
                   ex, nn, mi, resultado, mn>>

\* line 81
DmTerminar ==
    /\ fn = "construir_matriz_distancias" /\ pc = "filas"
    /\ dm.i >= dm.n
    /\ resultado' = dm.matriz
    /\ pc' = "done"
    /\ UNCHANGED <<fn, ciudades, matriz_dist, verbose, ciudad_inicio, metodo,
                   ex, nn, mi, dm, err, mn>>

NextDist == DmIniciar \/ DmFila \/ DmTerminar

SpecDist == InitDist /\ [][NextDist]_vars

----------------------------------------------------------------------------
(* main.py, lines 96-127: the matrix is built, both solvers run on it and  *)
(* their results are compared; and comparar_metodos called on its own with *)
(* any two results                                                         *)

\* largest length given to comparar_metodos directly
MaxLong == 12

\* largest running time, in clock ticks
MaxTiempo == 1

Tiempos == 0..MaxTiempo

\* the running times of the calls of a chain: too short for the clock to
\* tell, or the longest
TiemposDeCadena == {0, MaxTiempo}

\* the callers that run both solvers and compare them
EnCadena == fn \in {"main", "llamador"}

\* the floats of 0..MaxLong
Longitudes == {x \in 0..MaxLong : Redondear(x) = x}

\* a result dict with the time its call took
ConTiempo(res, t) == ("tiempo_ejecucion" :> t) @@ res

\* main starts with its list of cities
InitMain ==
    /\ fn = "main"
    /\ pc = "matriz"
    /\ ciudades \in ListasDePuntos
    /\ matriz_dist = <<>>
    /\ verbose = TRUE
    /\ ciudad_inicio = 0
    /\ metodo = "euclid"
    /\ ex = ExInicial(0)
    /\ nn = NnVacio
    /\ mi = MiInicial
    /\ dm = DmVacio
    /\ resultado = Ninguno
    /\ err = "none"
    /\ mn = MnVacio

\* a caller that makes the calls of lines 108-127 on a matrix it already
\* holds, which need not be symmetric
InitPar ==
    /\ fn = "llamador"
    /\ pc = "exhaustiva"
    /\ \E n \in 1..MaxPuntos :
          /\ ciudades = Ciudades(n)
          /\ matriz_dist \in Matrices(n)
    /\ verbose = TRUE
    /\ ciudad_inicio = 0
    /\ metodo = "euclid"
    /\ ex = ExInicial(0)
    /\ nn = NnVacio
    /\ mi = MiInicial
    /\ dm = DmVacio
    /\ resultado = Ninguno
    /\ err = "none"
    /\ mn = MnVacio

\* comparar_metodos is called with two result dicts
InitComp ==
    /\ fn = "comparar_metodos"
    /\ pc = "inicio"
    /\ \E n \in 0..MaxN : ciudades = Ciudades(n)
    /\ matriz_dist = <<>>
    /\ verbose \in BOOLEAN
    /\ ciudad_inicio = 0
    /\ metodo = "euclid"
    /\ ex = ExInicial(0)
    /\ nn = NnVacio
    /\ mi = MiInicial
    /\ dm = DmVacio
    /\ resultado = Ninguno
    /\ err = "none"
    /\ \E a, b \in Longitudes : \E t1, t2 \in Tiempos :
          mn = [MnVacio EXCEPT
                  !.resultado_exhaustivo =
                      ConTiempo([ciclo_optimo |-> <<0, 1>>,
                                 longitud_optima |-> a,
                                 ciclos_evaluados |-> 1,
                                 historial |-> <<>>], t1),
                  !.resultado_nn =
                      ConTiempo([ciclo |-> <<0, 1>>,
                                 longitud |-> b,
                                 historial |-> <<>>], t2)]

\* main.py line 96
MainMatriz ==
    /\ fn = "main" /\ pc = "matriz"
    /\ \E r \in {ConstruirMatriz(metodo, ciudades)} :
       IF r.err # "none"
       THEN /\ err' = r.err
            /\ pc' = "error"
            /\ matriz_dist' = matriz_dist
       ELSE /\ err' = err
            /\ pc' = "exhaustiva"
            /\ matriz_dist' = r.res
    /\ UNCHANGED <<fn, ciudades, verbose, ciudad_inicio, metodo,
                   ex, nn, mi, dm, resultado, mn>>

\* main.py line 108
MainExhaustiva ==
    /\ EnCadena /\ pc = "exhaustiva"
    /\ LET r == BusquedaExhaustiva(Len(ciudades), matriz_dist, verbose) IN
       IF r.err # "none"
       THEN /\ err' = r.err
            /\ pc' = "error"
            /\ mn' = mn
       ELSE /\ err' = err
            /\ pc' = "vecino"
            /\ \E t \in TiemposDeCadena :
                  mn' = [mn EXCEPT
                           !.resultado_exhaustivo = ConTiempo(r.res, t)]
    /\ UNCHANGED <<fn, ciudades, matriz_dist, verbose, ciudad_inicio, metodo,
                   ex, nn, mi, dm, resultado>>

\* main.py line 116
MainVecino ==
    /\ EnCadena /\ pc = "vecino"
    /\ LET r == VecinoMasCercano(Len(ciudades), matriz_dist, ciudad_inicio) IN
       IF r.err # "none"
       THEN /\ err' = r.err
            /\ pc' = "error"
            /\ mn' = mn
       ELSE /\ err' = err
            /\ pc' = "comparar"
            /\ \E t \in TiemposDeCadena :
                  mn' = [mn EXCEPT !.resultado_nn = ConTiempo(r.res, t)]
    /\ UNCHANGED <<fn, ciudades, matriz_dist, verbose, ciudad_inicio, metodo,
                   ex, nn, mi, dm, resultado>>

\* main.py line 127, and comparar_metodos called on its own
Comparar ==
    /\ \/ EnCadena /\ pc = "comparar"
       \/ fn = "comparar_metodos" /\ pc = "inicio"
    /\ LET r == CompararMetodos(mn.resultado_exhaustivo, mn.resultado_nn,
                                ciudades, verbose) IN
       IF r.err # "none"
       THEN /\ err' = r.err
            /\ pc' = "error"
            /\ resultado' = resultado
       ELSE /\ err' = err
            /\ pc' = "done"
            /\ resultado' = r.res
    /\ UNCHANGED <<fn, ciudades, matriz_dist, verbose, ciudad_inicio, metodo,
                   ex, nn, mi, dm, mn>>

NextMain == MainMatriz \/ MainExhaustiva \/ MainVecino \/ Comparar

SpecMain == (InitMain \/ InitPar \/ InitComp) /\ [][NextMain]_vars

----------------------------------------------------------------------------
(* A caller that calls busqueda_exhaustiva, or vecino_mas_cercano, twice   *)
(* with the same arguments                                                 *)

InitDos ==
    /\ fn \in {"busqueda_exhaustiva", "vecino_mas_cercano"}
    /\ pc = "inicio"
    /\ \E n \in 0..MaxN :
          /\ ciudades = Ciudades(n)
          /\ matriz_dist \in Matrices(n)
    /\ verbose \in BOOLEAN
    /\ ciudad_inicio \in IF fn = "vecino_mas_cercano" THEN 0..MaxN ELSE {0}
    /\ metodo = "euclid"
    /\ ex = ExInicial(0)
    /\ nn = NnVacio
    /\ mi = MiInicial
    /\ dm = DmVacio
    /\ resultado = Ninguno
    /\ err = "none"
    /\ mn = MnVacio

\* the first call has ended: the caller keeps what it got and calls again
Repetir ==
    /\ fn \in {"busqueda_exhaustiva", "vecino_mas_cercano"}
    /\ pc \in {"done", "error"}
    /\ mn.llamadas = 0
    /\ mn' = [mn EXCEPT !.anterior = [resultado |-> resultado, err |-> err],
                        !.llamadas = 1]
    /\ pc' = "inicio"
    /\ resultado' = Ninguno
    /\ err' = "none"
    /\ UNCHANGED <<fn, ciudades, matriz_dist, verbose, ciudad_inicio, metodo,
                   ex, nn, mi, dm>>

NextDos == NextEx \/ NextNN \/ Repetir

SpecDos == InitDos /\ [][NextDos]_vars

----------------------------------------------------------------------------
(* busqueda_exhaustiva on matrices whose distances come near the largest   *)
(* float, so that the length of a cycle can overflow                       *)

\* a finite distance (sys.float_info.max in CPython) so large that adding
\* two of them overflows: line 26 then stores float('inf')
Enorme == 2 ^ 19

CeldasEnormes == [1..MaxCeldas -> {0, 1, Enorme}]

\* n x n matrices of finite distances, small and enormous
MatricesEnormes(m) == {MatrizDe(m, c) : c \in CeldasEnormes}

InitEnorme ==
    /\ fn = "busqueda_exhaustiva"
    /\ pc = "inicio"
    /\ \E n \in 1..MaxN :
          /\ ciudades = Ciudades(n)
          /\ matriz_dist \in MatricesEnormes(n)
    /\ verbose \in BOOLEAN
    /\ ciudad_inicio = 0
    /\ metodo = "euclid"
    /\ ex = ExInicial(0)
    /\ nn = NnVacio
    /\ mi = MiInicial
    /\ dm = DmVacio
    /\ resultado = Ninguno
    /\ err = "none"
    /\ mn = MnVacio

SpecEnorme == InitEnorme /\ [][NextEx]_vars

----------------------------------------------------------------------------
(* A caller that calls busqueda_exhaustiva, or vecino_mas_cercano, with    *)
(* verbose set one way and then, with the same other arguments, the other  *)
(* way. The caller keeps a copy of the matrix it passes.                   *)

InitVerbose ==
    /\ fn \in {"busqueda_exhaustiva", "vecino_mas_cercano"}
    /\ pc = "inicio"
    /\ \E n \in 0..MaxN : \E m \in {n, n + 1} :
          /\ ciudades = Ciudades(n)
          /\ matriz_dist \in MatricesEnormes(m)
    /\ verbose \in BOOLEAN
    /\ ciudad_inicio \in IF fn = "vecino_mas_cercano" THEN 0..MaxN ELSE {0}
    /\ metodo = "euclid"
    /\ ex = ExInicial(0)
    /\ nn = NnVacio
    /\ mi = MiInicial
    /\ dm = DmVacio
    /\ resultado = Ninguno
    /\ err = "none"
    /\ mn = ("matriz" :> matriz_dist) @@ MnVacio

\* the first call has ended: the caller keeps what it got and calls again
\* with the other value of verbose
Alternar ==
    /\ fn \in {"busqueda_exhaustiva", "vecino_mas_cercano"}
    /\ pc \in {"done", "error"}
    /\ mn.llamadas = 0
    /\ mn' = [mn EXCEPT !.anterior = [resultado |-> resultado, err |-> err,
                                      verbose |-> verbose],
                        !.llamadas = 1]
    /\ verbose' = ~verbose
    /\ pc' = "inicio"
    /\ resultado' = Ninguno
    /\ err' = "none"
    /\ UNCHANGED <<fn, ciudades, matriz_dist, ciudad_inicio, metodo,
                   ex, nn, mi, dm>>

NextVerbose == NextEx \/ NextNN \/ Alternar

SpecVerbose == InitVerbose /\ [][NextVerbose]_vars

----------------------------------------------------------------------------
(* busqueda_exhaustiva at the smallest size where the retention limit of   *)
(* historial matters                                                       *)

\* the smallest n with (n-1)! > LimiteHistorial
HistN ==
    CHOOSE n \in 1..12 :
        /\ TotalPermutaciones(n) > LimiteHistorial
        /\ \A k \in 1..(n - 1) : TotalPermutaciones(k) <= LimiteHistorial

\* number of matrices tried at size HistN
MaxGiros == 2

\* distance 1 from i to the city r places before it (cyclically), 2 otherwise
MatrizGiro(m, r) ==
    [i \in 1..m |-> [j \in 1..m |-> IF (i - j) % m = r THEN 1 ELSE 2]]

InitHist ==
    /\ fn = "busqueda_exhaustiva"
    /\ pc = "inicio"
    /\ ciudades = Ciudades(HistN)
    /\ matriz_dist \in {MatrizGiro(HistN, r) : r \in 1..MaxGiros}
    /\ verbose \in BOOLEAN
    /\ ciudad_inicio = 0
    /\ metodo = "euclid"
    /\ ex = ExInicial(0)
    /\ nn = NnVacio
    /\ mi = MiInicial
    /\ dm = DmVacio
    /\ resultado = Ninguno
    /\ err = "none"
    /\ mn = MnVacio

SpecHist == InitHist /\ [][NextEx]_vars

----------------------------------------------------------------------------
(* Properties of busqueda_exhaustiva *)

\* all orderings of 1..n-1, as a set
Permutaciones(n) ==
    {p \in [1..(n - 1) -> 1..(n - 1)] :
        \A a, b \in 1..(n - 1) : p[a] = p[b] => a = b}

\* edge k of the closed tour c: c[k] -> c[k+1], the last one back to c[1]
Arista(c, M, k) == M[c[k] + 1][c[IF k = Len(c) THEN 1 ELSE k + 1] + 1]

\* the closed-tour length of c as a float: its first k edges added one by
\* one from the first
RECURSIVE SumaAristas(_, _, _)
SumaAristas(c, M, k) ==
    IF k = 0 THEN 0
    ELSE FSuma(SumaAristas(c, M, k - 1), Arista(c, M, k))

LongitudCerrada(c, M) == SumaAristas(c, M, Len(c))

NumCiudades == Len(ciudades)

Cuadrada == Len(matriz_dist) = NumCiudades

ExDevuelve == fn = "busqueda_exhaustiva" /\ pc = "done"

ExFalla == fn = "busqueda_exhaustiva" /\ pc = "error"

C2_CiclosEvaluados ==
    (ExDevuelve /\ NumCiudades >= 1) =>
        /\ resultado.ciclos_evaluados = Cardinality(Permutaciones(NumCiudades))
        /\ resultado.ciclos_evaluados = ex.total_permutaciones

\* a search over MaxN cities that returned
C2_Witness ==
    /\ ExDevuelve /\ NumCiudades = MaxN
    /\ resultado.ciclos_evaluados > 2

\* C5: the call fails whenever the matrix dimension differs from the number
\* of cities, and returns whenever the matrix is n x n with n >= 1
C5_DimensionMismatch ==
    (ExDevuelve \/ ExFalla) =>
        /\ ~Cuadrada => ExFalla
        /\ (Cuadrada /\ NumCiudades >= 1) => ExDevuelve

\* C6: for n <= 1 (n x n matrix with zero diagonal) the call returns one
\* trivial cycle: no index for n = 0, [0] for n = 1, with longitud_optima 0
\* and ciclos_evaluados 1
C6_CicloTrivial ==
    (/\ ExDevuelve \/ ExFalla
     /\ NumCiudades <= 1 /\ Cuadrada
     /\ \A i \in 1..Len(matriz_dist) : matriz_dist[i][i] = 0) =>
        /\ ExDevuelve
        /\ resultado.ciclo_optimo = Range(0, NumCiudades)
        /\ resultado.longitud_optima = 0
        /\ resultado.ciclos_evaluados = 1

\* C7: the k-th evaluated cycle gets an entry in historial if and only if
\* k <= 1000 or its length is strictly below the best length so far; the
\* entry is appended once, at the end, with iteracion = k
C7_Retencion ==
    [][(fn = "busqueda_exhaustiva" /\ pc = "permutaciones" /\ pc' # "error") =>
         LET k == ex.ciclos_evaluados + 1
             ciclo == <<0>> \o ex.perm
             longitud == LongitudCerrada(ciclo, matriz_dist)
             mejora == longitud < ex.mejor_longitud
         IN /\ ex'.ciclos_evaluados = k
            /\ IF k <= 1000 \/ mejora
               THEN /\ Len(ex'.historial) = Len(ex.historial) + 1
                    /\ SubSeq(ex'.historial, 1, Len(ex.historial)) = ex.historial
                    /\ ex'.historial[Len(ex'.historial)].iteracion = k
                    /\ ex'.historial[Len(ex'.historial)].ciclo = ciclo
                    /\ \A a \in 1..Len(ex.historial) :
                          ex.historial[a].iteracion < k
               ELSE ex'.historial = ex.historial]_vars

\* a finished search whose historial holds an entry beyond the 1000th
\* evaluation and lacks some evaluated cycle
C7_Witness ==
    /\ ExDevuelve
    /\ \E a \in 1..Len(resultado.historial) :
          resultado.historial[a].iteracion > 1000
    /\ Len(resultado.historial) < resultado.ciclos_evaluados

----------------------------------------------------------------------------
(* Properties of nearest_neighbor.py *)

NnDevuelve == fn = "vecino_mas_cercano" /\ pc = "done"

NnFalla == fn = "vecino_mas_cercano" /\ pc = "error"

InicioValido == ciudad_inicio >= 0 /\ ciudad_inicio < NumCiudades

\* C3: for n >= 1, an n x n matrix of finite distances and ciudad_inicio in
\* [0, n), the call returns a ciclo of exactly n elements that holds each of
\* 0..n-1 once and starts with ciudad_inicio
C3_CicloPermutacion ==
    ((NnDevuelve \/ NnFalla) /\ NumCiudades >= 1 /\ InicioValido) =>
        /\ NnDevuelve
        /\ Len(resultado.ciclo) = NumCiudades
        /\ \A c \in 0..(NumCiudades - 1) :
              Cardinality({k \in 1..Len(resultado.ciclo) :
                              resultado.ciclo[k] = c}) = 1
        /\ resultado.ciclo[1] = ciudad_inicio

\* a tour of MaxN cities from a start other than 0 that does not visit the
\* cities in index order
C3_Witness ==
    /\ NnDevuelve /\ NumCiudades = MaxN /\ InicioValido /\ ciudad_inicio > 0
    /\ \E k \in 2..(Len(resultado.ciclo) - 1) :
          resultado.ciclo[k] > resultado.ciclo[k + 1]

\* C4: for every ciudad_inicio outside [0, n), negative ones included, the
\* call fails with an index error and returns nothing
C4_InicioInvalido ==
    ((NnDevuelve \/ NnFalla) /\ ~InicioValido) =>
        /\ NnFalla
        /\ err = "IndexError"
        /\ resultado = Ninguno

MiDevuelve == fn = "vecino_mas_cercano_multi_inicio" /\ pc = "done"

\* the longitud of the tour vecino_mas_cercano builds from start s
LongitudDesde(s) == VecinoMasCercano(NumCiudades, matriz_dist, s).res.longitud

\* the lowest start among those of minimal longitud, over the starts 0..k-1
MejorInicio(k) ==
    CHOOSE s \in 0..(k - 1) :
        \A t \in 0..(k - 1) :
            \/ LongitudDesde(s) < LongitudDesde(t)
            \/ LongitudDesde(s) = LongitudDesde(t) /\ s <= t

----------------------------------------------------------------------------
(* Properties of distance_calculator.py *)

DmDevuelve == fn = "construir_matriz_distancias" /\ pc = "done"

DmFalla == fn = "construir_matriz_distancias" /\ pc = "error"

BienFormadas == \A k \in 1..Len(ciudades) : "coords" \in DOMAIN ciudades[k]

\* C9: for a list of n well-formed points and a supported method the call
\* returns an n x n matrix with d[i][i] = 0 and d[i][j] = d[j][i]: the empty
\* matrix for n = 0 and the single entry 0 for n = 1
C9_SimetricaDiagonalCero ==
    ((DmDevuelve \/ DmFalla) /\ BienFormadas
        /\ metodo \in {"euclid", "haversine"}) =>
        /\ DmDevuelve
        /\ Len(resultado) = NumCiudades
        /\ \A i \in 1..NumCiudades :
              /\ Len(resultado[i]) = NumCiudades
              /\ resultado[i][i] = 0
              /\ \A j \in 1..NumCiudades : resultado[i][j] = resultado[j][i]
        /\ NumCiudades = 0 => resultado = <<>>
        /\ NumCiudades = 1 => resultado = <<<<0>>>>

\* a returned matrix of MaxPuntos points with three different positive
\* distances
C9_Witness ==
    /\ DmDevuelve /\ BienFormadas /\ NumCiudades = MaxPuntos
    /\ NumCiudades >= 3
    /\ resultado[1][2] > 0
    /\ resultado[1][3] > resultado[1][2]
    /\ resultado[2][3] > resultado[1][3]

\* C10: for every method other than 'euclid' and 'haversine' the call
\* fails with the invalid-method error (ValueError) in its first step, with
\* no point read, no matrix made and nothing returned, whatever the list of
\* points (empty, well-formed or malformed)
C10_MetodoInvalido ==
    (fn = "construir_matriz_distancias"
        /\ metodo \notin {"euclid", "haversine"} /\ pc # "inicio") =>
        /\ pc = "error"
        /\ err = "ValueError"
        /\ dm.i = 0 /\ dm.n = 0 /\ dm.matriz = <<>>
        /\ resultado = Ninguno

\* a call with an unknown method and a list that holds a malformed point
\* has failed
C10_Witness ==
    /\ DmFalla /\ metodo = "manhattan" /\ err = "ValueError"
    /\ NumCiudades >= 2 /\ ~BienFormadas

----------------------------------------------------------------------------
(* Properties of comparador.py and of the calls of main.py *)

\* comparar_metodos has been called and has ended
ComparadorLlamado ==
    \/ fn = "comparar_metodos" /\ pc \in {"done", "error"}
    \/ EnCadena /\ pc \in {"done", "error"} /\ mn.resultado_nn # Ninguno

MainAcaba == fn = "main" /\ pc \in {"done", "error"}

\* C11: whenever comparar_metodos is called with a longitud_optima of 0 it
\* raises ZeroDivisionError and returns no metrics; and the calls of main on
\* a single point (matrix, busqueda_exhaustiva, vecino_mas_cercano,
\* comparar_metodos) end in that error, raised by comparar_metodos
C11_DivisionPorCero ==
    /\ ComparadorLlamado /\ mn.resultado_exhaustivo.longitud_optima = 0
          => pc = "error" /\ err = "ZeroDivisionError" /\ resultado = Ninguno
    /\ MainAcaba /\ NumCiudades = 1
          => /\ pc = "error" /\ err = "ZeroDivisionError"
             /\ resultado = Ninguno
             /\ mn.resultado_nn # Ninguno

C11_Witness ==
    /\ MainAcaba /\ NumCiudades = 1
    /\ mn.resultado_exhaustivo.ciclo_optimo = <<0>>
    /\ mn.resultado_nn.ciclo = <<0>>
    /\ err = "ZeroDivisionError"

\* C12: when comparar_metodos returns, longitud_optima is not 0,
\* diferencia_absoluta is the float nearest to L - L*, and gap_porcentaje is
\* 100 times the quotient of that difference by L*, to the precision of the
\* division; for L* = 10 and L = 12 it is exactly 20
C12_Gap ==
    ComparadorLlamado /\ pc = "done" =>
        LET opt == mn.resultado_exhaustivo.longitud_optima
            lnn == mn.resultado_nn.longitud
            dif == resultado.diferencia_absoluta
            gap == resultado.gap_porcentaje
        IN /\ opt # 0
           /\ 2 * Abs(dif - (lnn - opt)) <= Ulp(lnn - opt)
           /\ gap % 100 = 0
           /\ Abs((gap \div 100) * opt - dif * Escala) < Abs(opt)
           /\ (dif >= 0) = (gap >= 0)
           /\ opt = 10 /\ lnn = 12 => gap = 20 * Escala /\ dif = 2

C12_Witness ==
    /\ fn = "comparar_metodos" /\ pc = "done"
    /\ mn.resultado_exhaustivo.longitud_optima = 10
    /\ mn.resultado_nn.longitud = 12
    /\ resultado.gap_porcentaje = 20 * Escala

----------------------------------------------------------------------------
(* Properties of repeated calls *)

SegundaAcaba == mn.llamadas = 1 /\ pc \in {"done", "error"}

\* C13: a second call of busqueda_exhaustiva (of vecino_mas_cercano) with
\* the arguments of the first returns the same cycle and the same length as
\* the first, and raises exactly when the first raised, the same exception
C13_Determinista ==
    SegundaAcaba =>
        /\ err = mn.anterior.err
        /\ (pc = "done") = (mn.anterior.resultado # Ninguno)
        /\ pc = "done" /\ fn = "busqueda_exhaustiva" =>
              /\ resultado.ciclo_optimo = mn.anterior.resultado.ciclo_optimo
              /\ resultado.longitud_optima
                    = mn.anterior.resultado.longitud_optima
        /\ pc = "done" /\ fn = "vecino_mas_cercano" =>
              /\ resultado.ciclo = mn.anterior.resultado.ciclo
              /\ resultado.longitud = mn.anterior.resultado.longitud

C13_Witness ==
    /\ SegundaAcaba /\ pc = "done"
    /\ fn = "vecino_mas_cercano"
    /\ NumCiudades = MaxN
    /\ resultado.ciclo # Range(0, MaxN)
    /\ resultado.longitud > 0

----------------------------------------------------------------------------
(* Properties of the lengths as floats *)

\* the sum of the first k edges of the closed tour c as a real number
RECURSIVE SumaExactaHasta(_, _, _)
SumaExactaHasta(c, M, k) ==
    IF k = 0 THEN 0 ELSE SumaExactaHasta(c, M, k - 1) + Arista(c, M, k)

SumaExacta(c, M) == SumaExactaHasta(c, M, Len(c))

Mayor(x, y) == IF x >= y THEN x ELSE y

\* busqueda_exhaustiva has returned to main
MainTieneOptimo == fn = "main" /\ mn.resultado_exhaustivo # Ninguno

\* busqueda_exhaustiva has returned to a caller that runs both solvers
TieneOptimo == EnCadena /\ mn.resultado_exhaustivo # Ninguno

\* C14 as the specification states it: on 3 points the two evaluated cycles
\* are recorded with identical length
C14_LongitudIdentica ==
    MainTieneOptimo /\ NumCiudades = 3 =>
        LET h == mn.resultado_exhaustivo.historial IN
        /\ mn.resultado_exhaustivo.ciclos_evaluados = 2
        /\ Len(h) = 2
        /\ h[1].ciclo = <<0, 1, 2>> /\ h[2].ciclo = <<0, 2, 1>>
        /\ h[1].longitud = h[2].longitud

\* C14, amended: on 3 points busqueda_exhaustiva evaluates exactly the 2
\* cycles [0,1,2] and [0,2,1], reflections of each other; the three
\* distances of both have the same exact sum, and the two recorded lengths,
\* which add them in opposite orders, differ by no more than the rounding
\* of the two additions (two units in the last place of the larger)
C14_Reflejos ==
    MainTieneOptimo /\ NumCiudades = 3 =>
        LET h == mn.resultado_exhaustivo.historial IN
        /\ mn.resultado_exhaustivo.ciclos_evaluados = 2
        /\ Len(h) = 2
        /\ h[1].ciclo = <<0, 1, 2>> /\ h[2].ciclo = <<0, 2, 1>>
        /\ \A k \in 2..3 : h[2].ciclo[k] = h[1].ciclo[5 - k]
        /\ SumaExacta(h[1].ciclo, matriz_dist)
              = SumaExacta(h[2].ciclo, matriz_dist)
        /\ Abs(h[1].longitud - h[2].longitud)
              <= 2 * Ulp(Mayor(h[1].longitud, h[2].longitud))
        /\ \A k \in 1..2 :
              Abs(h[k].longitud - SumaExacta(h[k].ciclo, matriz_dist))
                 <= Ulp(h[k].longitud)

\* three points whose two cycles are recorded with different lengths
C14_Witness ==
    /\ MainTieneOptimo /\ NumCiudades = 3
    /\ mn.resultado_exhaustivo.historial[1].longitud
          # mn.resultado_exhaustivo.historial[2].longitud

----------------------------------------------------------------------------
(* Properties of the enumeration of busqueda_exhaustiva *)

\* C15, as the module docstring and the warning of seleccionar_dataset state
\* it: for n >= 3 cities the search evaluates (n-1)!/2 cycles
C15_MitadDePermutaciones ==
    ExDevuelve /\ Cuadrada /\ NumCiudades >= 3 =>
        2 * resultado.ciclos_evaluados = Producto(1, NumCiudades)

\* p comes before q in lexicographic order
LexMenor(p, q) ==
    \E i \in 1..Len(q) :
        /\ p[i] < q[i]
        /\ \A k \in 1..(i - 1) : p[k] = q[k]

\* the cities of the cycle c after its first
Resto(c) == [k \in 1..(Len(c) - 1) |-> c[k + 1]]

----------------------------------------------------------------------------
(* Properties of the construction of vecino_mas_cercano *)

\* the cities of 0..n-1 that the partial cycle c does not hold
SinVisitar(c) ==
    {k \in 0..(NumCiudades - 1) : \A i \in 1..Len(c) : c[i] # k}

\* C17: every construction step of vecino_mas_cercano appends one city,
\* unvisited before the step, at the least distance from the current city
\* (the last of the partial cycle) among the unvisited ones and of the
\* lowest index among those at that distance; a call that returns has taken
\* exactly n-1 such steps
C17_PasoVoraz ==
    /\ [][fn = "vecino_mas_cercano" /\ pc = "construir" /\ InicioValido
             /\ nn'.ciclo # nn.ciclo =>
            LET actual == nn.ciclo[Len(nn.ciclo)]
                nueva == nn'.ciclo[Len(nn'.ciclo)]
                d(k) == matriz_dist[actual + 1][k + 1]
            IN /\ nn'.ciclo = Append(nn.ciclo, nueva)
               /\ nn'.paso = nn.paso + 1
               /\ nueva \in SinVisitar(nn.ciclo)
               /\ \A k \in SinVisitar(nn.ciclo) :
                     /\ d(nueva) <= d(k)
                     /\ d(k) = d(nueva) => nueva <= k]_vars
    /\ [](NnDevuelve /\ InicioValido =>
            nn.paso = NumCiudades - 1 /\ Len(nn.ciclo) = NumCiudades)

\* a step taken where two unvisited cities were at the least distance
C17_Witness ==
    /\ fn = "vecino_mas_cercano" /\ pc = "construir" /\ InicioValido
    /\ NumCiudades = MaxN
    /\ nn.paso >= 1
    /\ LET actual == nn.ciclo[Len(nn.ciclo) - 1]
           nueva == nn.ciclo[Len(nn.ciclo)]
       IN \E k \in SinVisitar(nn.ciclo) :
             /\ matriz_dist[actual + 1][k + 1]
                   = matriz_dist[actual + 1][nueva + 1]
             /\ \E j \in SinVisitar(nn.ciclo) :
                   matriz_dist[actual + 1][j + 1]
                       > matriz_dist[actual + 1][nueva + 1]

\* the first k elements of the sequence c
Primeros(c, k) == [i \in 1..k |-> c[i]]

\* C18: for n >= 1 and a valid start the returned historial has n entries,
\* numbered 1..n in order; entry k < n is the greedy extension from the
\* k-th city of the cycle to the next, with the cycle so far and the length
\* so far; entry n is the closing edge from the last city to ciudad_inicio,
\* its longitud_acumulada is the returned longitud and its ciclo_parcial is
\* the returned ciclo followed by ciudad_inicio
C18_Historial ==
    NnDevuelve /\ NumCiudades >= 1 /\ InicioValido =>
        LET h == resultado.historial
            c == resultado.ciclo
            n == NumCiudades
        IN /\ Len(h) = n
           /\ \A k \in 1..n :
                 /\ h[k].paso = k
                 /\ h[k].ciudad_origen = c[k]
                 /\ h[k].distancia
                       = matriz_dist[c[k] + 1][h[k].ciudad_destino + 1]
                 /\ h[k].longitud_acumulada
                       = FSuma(IF k = 1 THEN 0
                               ELSE h[k - 1].longitud_acumulada,
                               h[k].distancia)
           /\ \A k \in 1..(n - 1) :
                 /\ h[k].ciudad_destino = c[k + 1]
                 /\ h[k].ciclo_parcial = Primeros(c, k + 1)
           /\ h[n].ciudad_destino = ciudad_inicio
           /\ h[n].longitud_acumulada = resultado.longitud
           /\ h[n].ciclo_parcial = Append(c, ciudad_inicio)

\* a tour of MaxN cities from a start other than 0 with a closing edge of
\* positive length
C18_Witness ==
    /\ NnDevuelve /\ NumCiudades = MaxN /\ InicioValido
    /\ ciudad_inicio > 0
    /\ Len(resultado.historial) = MaxN
    /\ resultado.historial[MaxN].distancia > 0
    /\ resultado.historial[MaxN].longitud_acumulada
          > resultado.historial[MaxN - 1].longitud_acumulada

\* C19: for every valid input the returned longitud is
\* calcular_longitud_ciclo(ciclo, matriz_dist): the n matrix entries along
\* the closed tour of the returned ciclo, the closing edge back to
\* ciudad_inicio once, added in the order of the tour
C19_LongitudDelCiclo ==
    NnDevuelve /\ NumCiudades >= 1 /\ InicioValido =>
        /\ calcular_longitud_ciclo(resultado.ciclo, matriz_dist).err = "none"
        /\ resultado.longitud
              = calcular_longitud_ciclo(resultado.ciclo, matriz_dist).val
        /\ resultado.longitud = LongitudCerrada(resultado.ciclo, matriz_dist)
        /\ 2 * Abs(resultado.longitud
                    - SumaExacta(resultado.ciclo, matriz_dist))
              <= NumCiudades * Ulp(resultado.longitud)
        /\ SumaExacta(resultado.ciclo, matriz_dist) < 2 ^ Mantisa =>
              resultado.longitud = SumaExacta(resultado.ciclo, matriz_dist)

\* a tour of MaxN cities from a start other than 0 whose closing edge and
\* whose other edges all have positive length
C19_Witness ==
    /\ NnDevuelve /\ NumCiudades = MaxN /\ InicioValido
    /\ ciudad_inicio > 0
    /\ \A k \in 1..MaxN : Arista(resultado.ciclo, matriz_dist, k) > 0
    /\ resultado.longitud > MaxN

----------------------------------------------------------------------------
(* Properties of the heuristic against the optimum *)

\* the closed tour c, started from its city 0
DesdeCero(c) ==
    LET z == CHOOSE i \in 1..Len(c) : c[i] = 0 IN
    [k \in 1..Len(c) |-> c[((z + k - 2) % Len(c)) + 1]]

\* the result of vecino_mas_cercano from the start s on the caller's matrix
Vecino(s) == VecinoMasCercano(NumCiudades, matriz_dist, s).res

\* C20 as stated: when busqueda_exhaustiva has returned, the longitud of
\* vecino_mas_cercano from every start, and of the multi-start, is >= its
\* longitud_optima, and the metrics of comparar_metodos are not negative
C20_NuncaMenor ==
    /\ TieneOptimo /\ pc = "vecino" /\ NumCiudades >= 1 =>
          /\ \A s \in 0..(NumCiudades - 1) :
                Vecino(s).longitud >= mn.resultado_exhaustivo.longitud_optima
          /\ Vecino(MejorInicio(NumCiudades)).longitud
                >= mn.resultado_exhaustivo.longitud_optima
    /\ EnCadena /\ pc = "done" => /\ resultado.diferencia_absoluta >= 0
                                  /\ resultado.gap_porcentaje >= 0

\* C20, amended: the tour of vecino_mas_cercano from any start, read from
\* city 0, is one of the cycles the search evaluated, so its length as the
\* search adds it is >= longitud_optima; the longitud the heuristic returns
\* adds the same distances from its own start and falls below
\* longitud_optima by no more than the rounding of the additions (n-1 units
\* in the last place), the multi-start likewise; from start 0, the start
\* main uses, it is never below, and the metrics of comparar_metodos after
\* both solvers are never negative
C20_NoMenorSalvoRedondeo ==
    /\ TieneOptimo /\ pc = "vecino" /\ NumCiudades >= 1 =>
          LET opt == mn.resultado_exhaustivo.longitud_optima
              holgura == (NumCiudades - 1) * Ulp(opt)
          IN /\ \A s \in 0..(NumCiudades - 1) :
                   LET v == Vecino(s) IN
                   /\ LongitudCerrada(DesdeCero(v.ciclo), matriz_dist) >= opt
                   /\ v.longitud + holgura >= opt
             /\ Vecino(MejorInicio(NumCiudades)).longitud + holgura >= opt
             /\ Vecino(0).longitud >= opt
    /\ TieneOptimo /\ mn.resultado_nn # Ninguno =>
          mn.resultado_nn.longitud >= mn.resultado_exhaustivo.longitud_optima
    /\ EnCadena /\ pc = "done" => /\ resultado.diferencia_absoluta >= 0
                                  /\ resultado.gap_porcentaje >= 0

\* points on which the heuristic from some start returns less than the
\* optimum, and main ends with its comparison
C20_Witness ==
    /\ fn = "main"
    /\ TieneOptimo /\ NumCiudades >= 1
    /\ \E s \in 0..(NumCiudades - 1) :
          Vecino(s).longitud < mn.resultado_exhaustivo.longitud_optima
    /\ pc = "done"
    /\ resultado.diferencia_absoluta >= 0

----------------------------------------------------------------------------
(* Properties of the historial of busqueda_exhaustiva *)

\* positions of the entries of historial h marked es_mejor
Mejores(h) == {k \in 1..Len(h) : h[k].es_mejor}

\* the es_mejor entries of h have strictly decreasing lengths, in order
MejoresDecrecen(h) ==
    \A j \in Mejores(h) : \A k \in Mejores(h) :
        j < k => h[k].longitud < h[j].longitud

\* the last es_mejor entry of h carries the returned cycle and length
UltimoMejorEsElOptimo(r) ==
    \A k \in Mejores(r.historial) :
        (\A j \in Mejores(r.historial) : j <= k) =>
            /\ r.historial[k].ciclo = r.ciclo_optimo
            /\ r.historial[k].longitud = r.longitud_optima

ExAcaba == fn = "busqueda_exhaustiva" /\ pc = "done" /\ Len(ciudades) >= 1

\* C21: in the historial returned by busqueda_exhaustiva for n >= 1 the
\* first entry (iteracion 1) has es_mejor = True, the lengths of the
\* es_mejor entries are strictly decreasing in order, and the last es_mejor
\* entry carries the returned ciclo_optimo and longitud_optima
C21_HistorialDeMejores ==
    ExAcaba =>
        /\ Len(resultado.historial) >= 1
        /\ resultado.historial[1].iteracion = 1
        /\ resultado.historial[1].es_mejor
        /\ MejoresDecrecen(resultado.historial)
        /\ UltimoMejorEsElOptimo(resultado)

\* what holds of the historial on every matrix: the first entry is the
\* first cycle evaluated, marked es_mejor exactly when its length is below
\* float('inf'); with no es_mejor entry the call returns None and
\* float('inf')
HistorialSalvoDesborde ==
    ExAcaba =>
        /\ Len(resultado.historial) >= 1
        /\ resultado.historial[1].iteracion = 1
        /\ resultado.historial[1].es_mejor
               <=> resultado.historial[1].longitud < Inf
        /\ MejoresDecrecen(resultado.historial)
        /\ UltimoMejorEsElOptimo(resultado)
        /\ Mejores(resultado.historial) = {} =>
               /\ resultado.ciclo_optimo = Ninguno
               /\ resultado.longitud_optima = Inf

\* a call that returns although the length of its first cycle overflowed
C21_Witness ==
    /\ ExAcaba
    /\ resultado.historial[1].longitud = Inf
    /\ \A i \in 1..Len(matriz_dist) : \A j \in 1..Len(matriz_dist) :
           matriz_dist[i][j] < Inf

----------------------------------------------------------------------------
(* Properties of verbose *)

\* both calls of the caller have ended
AmbasAcaban ==
    /\ fn \in {"busqueda_exhaustiva", "vecino_mas_cercano"}
    /\ pc \in {"done", "error"}
    /\ mn.llamadas = 1

\* the matrix is the one the caller passed
MatrizIntacta == matriz_dist = mn.matriz

\* C22: verbose never influences results: with the same cities, matrix and
\* start index, busqueda_exhaustiva and vecino_mas_cercano give the same
\* outcome (cycle, length, evaluated count, historial) with verbose=True as
\* with verbose=False, and neither changes the distance matrix
C22_VerboseNoInfluye ==
    /\ MatrizIntacta
    /\ AmbasAcaban =>
           /\ err = mn.anterior.err
           /\ resultado = mn.anterior.resultado

\* what holds of verbose: the matrix is never changed, two calls that both
\* return give the same result, vecino_mas_cercano has the same outcome
\* either way, and only the call with verbose=True can raise where the
\* other returns: from the report of busqueda_exhaustiva
VerboseSoloInforme ==
    /\ MatrizIntacta
    /\ AmbasAcaban =>
           /\ (err = "none" /\ mn.anterior.err = "none")
                  => resultado = mn.anterior.resultado
           /\ fn = "vecino_mas_cercano" =>
                  /\ err = mn.anterior.err
                  /\ resultado = mn.anterior.resultado
           /\ err # mn.anterior.err =>
                  /\ fn = "busqueda_exhaustiva"
                  /\ IF verbose
                     THEN mn.anterior.err = "none"
                          /\ err \in {"IndexError", "TypeError"}
                     ELSE err = "none"
                          /\ mn.anterior.err \in {"IndexError", "TypeError"}

\* busqueda_exhaustiva on n >= 1 cities and an n x n matrix of finite
\* distances returned with verbose=False and raised with verbose=True
C22_Witness ==
    /\ AmbasAcaban
    /\ fn = "busqueda_exhaustiva"
    /\ Len(ciudades) >= 1
    /\ Len(matriz_dist) = Len(ciudades)
    /\ verbose
    /\ err = "TypeError"
    /\ mn.anterior.err = "none"

====
